---- MODULE Spec2Model ----
(***************************************************************************)
(* A model of examples/simple_trainer.py: one worker process running a    *)
(* Runner (construction, optional retinex pretraining, the main training   *)
(* loop with its periodic evaluation, trajectory rendering, compression,   *)
(* checkpointing and export).                                              *)
(*                                                                         *)
(* Tensors are abstracted to what the orchestration depends on: a scene    *)
(* group is its leading dimension n and a write counter ver; a colour      *)
(* tensor is the symbolic expression that produced it.                     *)
(***************************************************************************)
EXTENDS Integers, Sequences, FiniteSets, TLC

VARIABLES
    cfg,            \* the Config object (read-only after start)
    pc,             \* position of the worker's control flow
    err,            \* the exception that ended the process ("" if none)
    step,           \* main-loop iteration index (completed iterations)
    pstep,          \* pretraining iteration index
    splats,         \* SceneState: group name -> [n, ver]
    optState,       \* per scene optimizer: leading dim of its moment buffers (0: none yet)
    running_stats,  \* length of running_stats["grad2d"] / ["count"]
    strategy_state, \* "none" or the variant whose initialize_state() built it
    schedulers,     \* main-loop scheduler list: sequence of [kind, opt]
    schedSteps,     \* per main-loop scheduler: number of step() calls
    steppedOpts,    \* optimizers the main loop has stepped so far
    events,         \* the ordered events of the current main-loop iteration
    fsWrites,       \* kinds of filesystem writes this worker has performed
    render,         \* the last result of rasterize_splats as unpacked by train
    dispatched,     \* strategy-dependent places executed so far: <<place, outcome>>
    trainset,       \* number of batches one pass over the training loader yields
    trainloader_iter, \* batches the current loader iterator has yielded
    fetched,        \* batches the current loop (pretraining or main) has consumed
    optimizers,     \* per scene group: learning rate, eps and betas of its optimizer
    colors_out,         \* colors_enh / colors_low after the post-processing of train or eval
    retinex_calls,  \* call sites of get_retinex_output executed so far
    loss,           \* how the last loss was composed (by train or retinex_train_step)
    ckpts,          \* the checkpoints this worker has written
    loaded,         \* what main loaded from cfg.ckpt: step and row provenance
    call,           \* one application of retinex_train_step's loss arithmetic
    data,           \* the optional keys of the batch the main loop fetched last
    shards,         \* the slicing of one point set, rank by rank
    rendered,       \* the callers of rasterize_splats that have rendered so far
    niqe,           \* niqe_metric and eval_niqe as __init__ left them, and the metric's callers
    metrics,        \* the metric lists Runner.eval filled on its last call
    pretrain        \* pre_train_retinex: optimizers stepped, optimizers rescheduled

vars == <<cfg, pretrain, metrics, niqe, rendered, shards, data, pc, err,
          step, pstep, splats, optState, running_stats, strategy_state,
          schedulers, schedSteps, steppedOpts, events, fsWrites, render,
          dispatched, trainset, trainloader_iter, fetched, optimizers,
          colors_out, retinex_calls, loss, ckpts, loaded, call>>

---------------------------------------------------------------------------
(* Bounds *)

MaxSteps == 2        \* cfg.max_steps
MaxPretrain == 2     \* cfg.pretrain_steps
MaxPts == 4          \* number of initial points (parser.points / init_num_pts)
MaxDeviations == 2   \* how many Config fields differ from BaseCfg at once

MaxBatches == 2      \* batches per pass over the training loader
MaxBatchSize == 2    \* cfg.batch_size
MaxTermValue == 1    \* value of one unweighted illumination loss term
MaxWeight == 2       \* value of one static loss weight (cfg.lambda_*)
MaxClip == 1         \* value of one half of the reflectance clipping penalty
MaxWorld == 3        \* world_size of the sharding specification

MaxN == MaxPts + 1   \* cap on the Gaussian count a strategy may grow to

---------------------------------------------------------------------------
(* Configuration *)

KnownStrategies == {"default", "mcmc"}

BaseCfg ==
    [ strategy            |-> "default",
      world               |-> [rank |-> 0, size |-> 1],
      init_type           |-> "sfm",
      num_pts             |-> MaxPts,
      compression         |-> "none",
      lpips_net           |-> "alex",
      render_traj_path    |-> "interp",
      disable_video       |-> FALSE,
      enable_retinex      |-> FALSE,
      use_illum_opt       |-> FALSE,
      pretrain_retinex    |-> TRUE,
      multi_scale_retinex |-> FALSE,
      use_refinement_net  |-> TRUE,
      depth_loss          |-> FALSE,
      use_bilateral_grid  |-> FALSE,
      pose_opt            |-> FALSE,
      app_opt             |-> FALSE,
      opacity_reg         |-> FALSE,
      scale_reg           |-> FALSE,
      save_ply            |-> FALSE,
      random_bkgd         |-> FALSE,
      eval_niqe           |-> FALSE,
      sparse_grad         |-> FALSE,
      visible_adam        |-> FALSE,
      packed              |-> TRUE,
      enable_dynamic_weights |-> TRUE,
      batch_size          |-> 1,
      ckpt                |-> [given |-> FALSE, files |-> <<>>],
      tb_every            |-> 1,
      eval_steps          |-> 1 .. MaxSteps,
      save_steps          |-> {MaxSteps},
      ply_steps           |-> {MaxSteps},
      max_steps           |-> MaxSteps,
      pretrain_steps      |-> MaxPretrain ]

\* A checkpoint file as main reads it: the Gaussian count of its splats and
\* its step.
CkptFile(n, s) == [n |-> n, step |-> s]

\* What the process is started with: the Config and the training set.
BaseInputs ==
    [f \in DOMAIN BaseCfg \cup {"trainset"} |->
        IF f = "trainset" THEN 1 ELSE BaseCfg[f]]

CfgOf(inputs) == [f \in DOMAIN BaseCfg |-> inputs[f]]

\* The single-field alternatives to BaseInputs.
Alts ==
    << <<"strategy", "mcmc">>, <<"strategy", "other">>,
       <<"world", [rank |-> 0, size |-> 2]>>, <<"world", [rank |-> 1, size |-> 2]>>,
       <<"init_type", "random">>, <<"init_type", "bogus">>,
       <<"num_pts", MaxPts - 1>>,
       <<"compression", "png">>, <<"compression", "bogus">>,
       <<"lpips_net", "vgg">>, <<"lpips_net", "bogus">>,
       <<"render_traj_path", "ellipse">>, <<"render_traj_path", "spiral">>,
       <<"render_traj_path", "bogus">>,
       <<"disable_video", TRUE>>,
       <<"enable_retinex", TRUE>>,
       <<"use_illum_opt", TRUE>>,
       <<"pretrain_retinex", FALSE>>,
       <<"multi_scale_retinex", TRUE>>,
       <<"use_refinement_net", FALSE>>,
       <<"depth_loss", TRUE>>,
       <<"use_bilateral_grid", TRUE>>,
       <<"pose_opt", TRUE>>,
       <<"app_opt", TRUE>>,
       <<"opacity_reg", TRUE>>,
       <<"scale_reg", TRUE>>,
       <<"save_ply", TRUE>>,
       <<"tb_every", 0>>,
       <<"eval_steps", {MaxSteps}>>, <<"eval_steps", {}>>,
       <<"save_steps", {1}>>,
       <<"random_bkgd", TRUE>>,
       <<"eval_niqe", TRUE>>,
       <<"sparse_grad", TRUE>>,
       <<"visible_adam", TRUE>>,
       <<"packed", FALSE>>,
       <<"enable_dynamic_weights", FALSE>>,
       <<"batch_size", MaxBatchSize>>, <<"batch_size", 2 * MaxBatchSize>>,
       <<"batch_size", MaxBatchSize + 10>>,
       <<"ckpt", [given |-> TRUE, files |-> <<>>]>>,
       <<"ckpt", [given |-> TRUE, files |-> <<CkptFile(MaxPts, MaxSteps - 1)>>]>>,
       <<"ckpt", [given |-> TRUE, files |-> <<CkptFile(MaxPts + 1, MaxSteps - 1)>>]>>,
       <<"ckpt", [given |-> TRUE,
                  files |-> <<CkptFile(2, MaxSteps - 1), CkptFile(1, MaxSteps - 1)>>]>>,
       <<"ckpt", [given |-> TRUE,
                  files |-> <<CkptFile(1, 0), CkptFile(MaxPts, 0), CkptFile(2, 0)>>]>>,
       <<"trainset", MaxBatches>> >>

RECURSIVE Within(_)
Within(k) ==
    IF k = 0 THEN {BaseInputs}
    ELSE LET prev == Within(k - 1)
         IN  prev \cup { [c EXCEPT ![Alts[i][1]] = Alts[i][2]] :
                            c \in prev, i \in 1 .. Len(Alts) }

Inputs == Within(MaxDeviations)

Configs == { CfgOf(i) : i \in Inputs }

---------------------------------------------------------------------------
(* create_splats_with_optimizers *)

\* points[::world_size]: a slice that does not start at the rank.
ShardIndices_IgnoreRank(P, world_rank, world_size) ==
    { i \in 0 .. P - 1 : i % world_size = 0 }

\* points[world_rank::world_size]: the indices (0-based) a rank takes.
ShardIndices(P, world_rank, world_size) ==
    { i \in 0 .. P - 1 : i % world_size = world_rank }

\* The three slicing statements: what a rank keeps of points, rgbs and scales.
Shard(P, world_rank, world_size) ==
    [ points |-> ShardIndices(P, world_rank, world_size),
      rgbs   |-> ShardIndices(P, world_rank, world_size),
      scales |-> ShardIndices(P, world_rank, world_size) ]

NoShards == [P |-> 0, world_size |-> 0, taken |-> <<>>]

\* The point sets and world sizes the slicing is applied to.
ShardInputs ==
    { [P |-> P, world_size |-> w, taken |-> <<>>] :
        P \in 0 .. 2 * MaxPts, w \in 1 .. MaxWorld }

\* One rank runs create_splats_with_optimizers on the same point set.
CreateShard ==
    /\ \E r \in (0 .. shards.world_size - 1) \ DOMAIN shards.taken :
          shards' = [shards EXCEPT
                       !.taken = [q \in DOMAIN shards.taken \cup {r} |->
                                    IF q = r THEN Shard(shards.P, r, shards.world_size)
                                    ELSE shards.taken[q]]]
    /\ UNCHANGED <<cfg, pretrain, metrics, niqe, rendered, data, trainset,
                   call, loaded, ckpts, optimizers, colors_out, retinex_calls,
                   loss, trainloader_iter, fetched, pc, err, step, pstep,
                   splats, optState, running_stats, strategy_state,
                   schedulers, schedSteps, steppedOpts, events, fsWrites,
                   render, dispatched>>

SceneGroups(feature_dim_set) ==
    {"means", "scales", "quats", "opacities"}
        \cup (IF feature_dim_set THEN {"features", "colors"} ELSE {"sh0", "shN"})
        \cup {"adjust_k", "adjust_b"}

CreateSplats(c) ==
    LET N == Cardinality(ShardIndices(c.num_pts, c.world.rank, c.world.size))
    IN  [g \in SceneGroups(c.app_opt) |-> [n |-> N, ver |-> 0]]

\* The learning rate create_splats_with_optimizers lists for a group.
GroupLr(g) ==
    CASE g = "means" -> "means_lr*scene_scale"
      [] g = "scales" -> "scales_lr"
      [] g = "quats" -> "quats_lr"
      [] g = "opacities" -> "opacities_lr"
      [] g = "shN" -> "shN_lr"
      [] OTHER -> "sh0_lr"

\* OptimizerHyper scaled by the per-replica batch size alone, as the
\* optimizers of Runner.__init__ are (lr * sqrt(cfg.batch_size)).
OptimizerHyper_BatchOnly(g, batch_size, world_size) ==
    LET BS == batch_size
    IN  [ lr    |-> [base |-> GroupLr(g), times_sqrt |-> BS],
          eps   |-> [base |-> "1e-15", over_sqrt |-> BS],
          betas |-> <<1000 - BS * 100, 1000 - BS * 1>> ]

\* The hyperparameters of one group's optimizer: lr * sqrt(BS),
\* 1e-15 / sqrt(BS) and betas (1 - BS*(1 - 0.9), 1 - BS*(1 - 0.999)), the
\* betas in thousandths.
OptimizerHyper(g, batch_size, world_size) ==
    LET BS == batch_size * world_size
    IN  [ lr    |-> [base |-> GroupLr(g), times_sqrt |-> BS],
          eps   |-> [base |-> "1e-15", over_sqrt |-> BS],
          betas |-> <<1000 - BS * 100, 1000 - BS * 1>> ]

\* The optimizer classes validate their arguments on construction: a first
\* beta below 0 is rejected (at BS = 10 the float expression is still just
\* above 0).
OptimizerError(c) ==
    IF OptimizerHyper("means", c.batch_size, c.world.size).betas[1] < 0
        THEN "ValueError: Invalid beta parameter at index 0"
        ELSE ""

\* The exception create_splats_with_optimizers raises, "" if it returns.
CreateSplatsError(c) ==
    IF c.init_type \notin {"sfm", "random"}
        THEN "ValueError: init_type"
    ELSE IF c.app_opt
        \* colors = logit(rgbs) is [N, 3]; colors[:, :1, :] indexes three dimensions
        THEN "IndexError: adjust_k"
    ELSE OptimizerError(c)

\* optimizer_class: SparseAdam with sparse_grad, else SelectiveAdam with
\* visible_adam, else AdamW.
OptimizerClass(c) ==
    IF c.sparse_grad THEN "SparseAdam"
    ELSE IF c.visible_adam THEN "SelectiveAdam"
    ELSE "AdamW"

CreateOptimizers(c) ==
    [g \in SceneGroups(c.app_opt) |-> OptimizerHyper(g, c.batch_size, c.world.size)]

---------------------------------------------------------------------------
(* Strategy-dependent places of Runner *)

\* DispatchAt with a type test that lets every non-Default variant through
\* initialize_state as if it were the MCMC variant.
DispatchAt_NoAssertNever(place, variant) ==
    CASE place = "initialize_state" -> "explicit"
      [] place = "absgrad" ->
            IF variant = "default" THEN "explicit" ELSE "fallthrough"
      [] place = "step_pre_backward" -> "undispatched"
      [] place = "step_post_backward" -> "explicit"

\* How a place treats a strategy variant: "explicit" (an isinstance branch of
\* its own), "fallthrough" (the else branch of a test for another variant),
\* "undispatched" (called with no branching) or "fatal" (assert_never).
DispatchAt(place, variant) ==
    CASE place = "initialize_state" ->
            IF variant \in KnownStrategies THEN "explicit" ELSE "fatal"
      [] place = "absgrad" ->
            IF variant = "default" THEN "explicit" ELSE "fallthrough"
      [] place = "step_pre_backward" -> "undispatched"
      [] place = "step_post_backward" ->
            IF variant \in KnownStrategies THEN "explicit" ELSE "fatal"

---------------------------------------------------------------------------
(* Runner.__init__ *)

\* Writes __init__ performs before anything can fail: the result
\* directories and the tensorboard writer, on every rank.
InitWrites == {"result_dirs", "tb_writer"}

\* The first exception __init__ raises, in statement order; "" if none.
InitError(c) ==
    IF c.enable_retinex /\ c.multi_scale_retinex /\ c.world.size > 1
        \* retinex_net is DDP-wrapped before retinex_net.use_refinement is read
        THEN "AttributeError: use_refinement"
    ELSE IF CreateSplatsError(c) # ""
        THEN CreateSplatsError(c)
    ELSE IF DispatchAt("initialize_state", c.strategy) = "fatal"
        THEN "AssertionError: assert_never(strategy)"
    ELSE IF c.compression \notin {"none", "png"}
        THEN "ValueError: compression"
    ELSE IF c.lpips_net \notin {"alex", "vgg"}
        THEN "ValueError: lpips_net"
    ELSE ""

HasRefinement(c) ==
    c.enable_retinex /\ c.multi_scale_retinex /\ c.use_refinement_net

\* Whether __init__ gets as far as the strategy-state initialisation.
ReachesStrategyInit(c) ==
    InitError(c) \notin {"AttributeError: use_refinement", "ValueError: init_type",
                         "IndexError: adjust_k",
                         "ValueError: Invalid beta parameter at index 0"}

\* Constructing the metric and swallowing its exception with it.
NiqeInit_Propagates(c, raises) ==
    IF ~c.eval_niqe THEN [err |-> "", metric |-> FALSE, eval_niqe |-> FALSE]
    ELSE IF raises THEN [err |-> "Exception: BRISQUELoss", metric |-> FALSE,
                         eval_niqe |-> TRUE]
    ELSE [err |-> "", metric |-> TRUE, eval_niqe |-> TRUE]

\* The last block of __init__: niqe_metric = None; with cfg.eval_niqe, try to
\* build piq.BRISQUELoss, and on any Exception print and set
\* cfg.eval_niqe = False. `metric` is "niqe_metric is not None".
NiqeInit(c, raises) ==
    IF ~c.eval_niqe THEN [err |-> "", metric |-> FALSE, eval_niqe |-> FALSE]
    ELSE IF raises THEN [err |-> "", metric |-> FALSE, eval_niqe |-> FALSE]
    ELSE [err |-> "", metric |-> TRUE, eval_niqe |-> TRUE]

NoNiqe == [raised |-> FALSE, metric |-> FALSE, eval_niqe |-> FALSE, calls |-> {}]

\* The guard of every use: cfg.eval_niqe and self.niqe_metric is not None.
NiqeUsed(n) == n.eval_niqe /\ n.metric

\* A caller that computes metrics (rank zero only) calls the metric iff the
\* guard holds.
NiqeAfterCall(c, n, site) ==
    IF NiqeUsed(n) /\ c.world.rank = 0
        THEN [n EXCEPT !.calls = @ \cup {site}]
        ELSE n

\* The keys of `metrics` after the validation loop of Runner.eval.
EvalMetrics(c, n) ==
    IF c.world.rank # 0 THEN {}
    ELSE {"psnr", "ssim", "lpips"}
            \cup (IF NiqeUsed(n) THEN {"niqe"} ELSE {})
            \cup (IF NiqeUsed(n) /\ c.enable_retinex THEN {"niqe_enh"} ELSE {})
            \cup (IF c.use_bilateral_grid THEN {"cc_psnr", "cc_ssim", "cc_lpips"} ELSE {})
            \cup (IF c.enable_retinex THEN {"lpips_enh", "ssim_enh", "psnr_enh"} ELSE {})

\* Whether constructing the metric can raise is not up to this program.
NiqeRaises(c) == IF c.eval_niqe /\ InitError(c) = "" THEN BOOLEAN ELSE {FALSE}

Construct ==
    /\ pc = "start"
    /\ fsWrites' = fsWrites \cup InitWrites
    /\ dispatched' =
          IF ReachesStrategyInit(cfg)
            THEN dispatched \cup
                    {<<"initialize_state", DispatchAt("initialize_state", cfg.strategy)>>}
            ELSE dispatched
    /\ \E raises \in NiqeRaises(cfg) :
        LET e == IF InitError(cfg) # "" THEN InitError(cfg)
                 ELSE NiqeInit(cfg, raises).err
        IN
        IF e # ""
         THEN /\ pc' = "fatal"
              /\ err' = e
              /\ UNCHANGED <<splats, optState, running_stats, strategy_state,
                             optimizers, niqe>>
         ELSE /\ pc' = "constructed"
              /\ err' = ""
              /\ niqe' = [raised    |-> raises,
                          metric    |-> NiqeInit(cfg, raises).metric,
                          eval_niqe |-> NiqeInit(cfg, raises).eval_niqe,
                          calls     |-> {}]
              /\ splats' = CreateSplats(cfg)
              /\ optimizers' = CreateOptimizers(cfg)
              /\ strategy_state' = cfg.strategy
              /\ optState' = [g \in SceneGroups(cfg.app_opt) |-> 0]
              /\ running_stats' = CreateSplats(cfg)["means"].n
    /\ UNCHANGED <<cfg, pretrain, metrics, rendered, shards, data, trainset,
                   call, loaded, ckpts, colors_out, retinex_calls, loss,
                   trainloader_iter, fetched, step, pstep, schedulers,
                   schedSteps, steppedOpts, events, render>>

---------------------------------------------------------------------------
(* Runner.rasterize_splats *)

Raw == [src |-> "colors", adjust |-> "none"]
Adjusted(by) == [src |-> "colors", adjust |-> by]
NoColour == [src |-> "none", adjust |-> "none"]
NoRender == [enh |-> NoColour, low |-> NoColour]

\* rasterization_dual renders `colors` into its first ("enhanced") output and
\* `colors_low` into its second ("low") output.
RasterizationDual(colors, colors_low) == <<colors, colors_low>>

\* The colour outputs rasterize_splats returns, in tuple order.
RasterizeSplats(c) ==
    IF ~c.enable_retinex
        THEN <<Raw>>
        ELSE LET colors == Raw
                 colors_low == IF c.use_illum_opt
                                 THEN Adjusted("illum_module(image_ids)")
                                 ELSE Adjusted("splats.adjust_k/adjust_b")
             IN  RasterizationDual(colors, colors_low)

\* How train and eval unpack the result (len(out) == 5 or 3).
Unpack(out) ==
    IF Len(out) = 2 THEN [enh |-> out[1], low |-> out[2]]
                    ELSE [enh |-> out[1], low |-> out[1]]

AbsgradPlace == {<<"absgrad", DispatchAt("absgrad", cfg.strategy)>>}

---------------------------------------------------------------------------
(* Runner.train: schedulers, optimizers, statement order *)

\* MainSchedulers without the exponential decay of the means optimizer.
MainSchedulers_NoMeans(c) ==
    (IF c.enable_retinex
          THEN <<[kind |-> "CosineAnnealingLR", opt |-> "retinex"]>>
               \o <<[kind |-> "CosineAnnealingLR", opt |-> "retinex_embed"]>>
          ELSE <<>>)
    \o (IF c.pose_opt THEN <<[kind |-> "ExponentialLR", opt |-> "pose"]>> ELSE <<>>)
    \o (IF c.use_bilateral_grid
          THEN <<[kind |-> "ChainedScheduler", opt |-> "bil_grid"]>> ELSE <<>>)

MainSchedulers(c) ==
    <<[kind |-> "ExponentialLR", opt |-> "means"]>>
    \o (IF c.enable_retinex
          THEN <<[kind |-> "CosineAnnealingLR", opt |-> "retinex"]>>
               \o (IF HasRefinement(c)
                     THEN <<[kind |-> "CosineAnnealingLR", opt |-> "refinement"]>>
                     ELSE <<>>)
               \o <<[kind |-> "CosineAnnealingLR", opt |-> "retinex_embed"]>>
          ELSE <<>>)
    \o (IF c.pose_opt THEN <<[kind |-> "ExponentialLR", opt |-> "pose"]>> ELSE <<>>)
    \o (IF c.use_bilateral_grid
          THEN <<[kind |-> "ChainedScheduler", opt |-> "bil_grid"]>> ELSE <<>>)

\* The optimizers one main-loop iteration steps.
MainLoopOptimizers(c) ==
    SceneGroups(c.app_opt)
        \cup (IF c.pose_opt THEN {"pose"} ELSE {})
        \cup (IF c.app_opt THEN {"app_embeds", "app_color_head"} ELSE {})
        \cup (IF c.use_bilateral_grid THEN {"bil_grid"} ELSE {})
        \cup {"illum"}
        \cup (IF c.enable_retinex THEN {"retinex", "retinex_embed"} ELSE {})
        \cup (IF HasRefinement(c) THEN {"refinement"} ELSE {})

\* TrainOrder with the pre-backward hook called after loss.backward().
TrainOrder_HookAfterBackward ==
    << "fetch", "rasterize", "loss", "extra_loss", "backward", "pre_backward", "log",
       "save", "ply", "opt_step", "sched_step", "post_backward", "eval",
       "traj", "compress" >>

\* The statements of one iteration of the main loop, in source order.
TrainOrder ==
    << "fetch", "rasterize", "loss", "pre_backward", "extra_loss", "backward", "log",
       "save", "ply", "opt_step", "sched_step", "post_backward", "eval",
       "traj", "compress" >>

Succ(stage) ==
    LET i == CHOOSE j \in 1 .. Len(TrainOrder) : TrainOrder[j] = stage
    IN  IF i < Len(TrainOrder) THEN TrainOrder[i + 1] ELSE "iter_end"

IsSaveStep(c, s) == (s + 1) \in c.save_steps \/ s = c.max_steps - 1
IsPlyStep(c, s) == ((s + 1) \in c.ply_steps \/ s = c.max_steps - 1) /\ c.save_ply
IsEvalStep(c, s) == (s + 1) \in c.eval_steps

TrainBegin ==
    /\ pc = "constructed"
    /\ ~cfg.ckpt.given
    /\ fsWrites' = fsWrites \cup (IF cfg.world.rank = 0 THEN {"cfg_yml"} ELSE {})
    /\ schedulers' = MainSchedulers(cfg)
    /\ schedSteps' = [i \in 1 .. Len(MainSchedulers(cfg)) |-> 0]
    \* pre_train_retinex starts with a loader iterator of its own
    /\ trainloader_iter' = 0
    /\ fetched' = 0
    /\ pc' = IF cfg.pretrain_retinex /\ cfg.enable_retinex /\ cfg.pretrain_steps > 0
               THEN "pretrain"
               ELSE "main_loader"
    /\ UNCHANGED <<cfg, pretrain, metrics, niqe, rendered, shards, data,
                   trainset, call, loaded, ckpts, optimizers, colors_out,
                   retinex_calls, loss, err, step, pstep, splats, optState,
                   running_stats, strategy_state, steppedOpts, events, render,
                   dispatched>>

---------------------------------------------------------------------------
(* Runner.pre_train_retinex / retinex_train_step *)

\* next(trainloader_iter) with its StopIteration handler: the position of
\* the batch it returns, the first of a new pass if the iterator was exhausted.
NextBatch(it, n) == IF it < n THEN it + 1 ELSE 1

NumTerms == 12

\* individual_losses and base_lambdas of retinex_train_step, in stack order.
RetinexTermNames ==
    << "reflect_spa", "color_val", "exposure_val", "smoothing", "adaptive_curve",
       "laplacian_val", "gradient", "frequency_val", "smooth_edge_aware",
       "exposure_local", "illumination_frequency_penalty", "exclusion_val" >>

BaseLambdaNames ==
    << "lambda_reflect", "lambda_illum_color", "lambda_illum_exposure",
       "lambda_smooth", "lambda_illum_curve", "lambda_laplacian",
       "lambda_gradient", "lambda_frequency", "lambda_edge_aware_smooth",
       "lambda_illum_exposure_local", "lambda_illum_frequency",
       "lambda_exclusion" >>

\* The branch retinex_train_step takes for its total.
LossWeighting(c) ==
    IF c.enable_dynamic_weights /\ c.multi_scale_retinex THEN "learned" ELSE "fixed"

NoLoss ==
    [ site |-> "none", weighting |-> "none", illum |-> {}, clipping |-> FALSE,
      enh_l1_target |-> "none", enh_ssim_target |-> "none", mix |-> {},
      extra |-> {} ]

\* How retinex_train_step composes the loss it returns.
RetinexTrainStepLoss(c) ==
    [ site            |-> "retinex_train_step",
      weighting       |-> LossWeighting(c),
      illum           |-> { <<BaseLambdaNames[i], RetinexTermNames[i]>> :
                                i \in 1 .. NumTerms },
      clipping        |-> TRUE,
      enh_l1_target   |-> "none",
      enh_ssim_target |-> "none",
      mix             |-> { <<"1", "total_loss">> },
      extra           |-> {} ]

NoPretrain == [stepped |-> {}, scheduled |-> {}]

\* The optimizers one pretraining iteration steps.
PretrainOptimizers(c) ==
    {"retinex", "retinex_embed"}
        \cup (IF HasRefinement(c) THEN {"refinement"} ELSE {})

\* The optimizers pre_train_retinex builds a CosineAnnealingLR for and
\* advances every iteration: those it steps and every illum optimizer.
PretrainScheduled(c) == PretrainOptimizers(c) \cup {"illum"}

PretrainStep ==
    /\ pc = "pretrain"
    /\ trainloader_iter' = NextBatch(trainloader_iter, trainset)
    /\ fetched' = fetched + 1
    /\ retinex_calls' = retinex_calls \cup {"retinex_train_step"}
    /\ IF cfg.tb_every = 0
         \* retinex_train_step: step % self.cfg.tb_every
         THEN /\ pc' = "fatal"
              /\ err' = "ZeroDivisionError: tb_every"
              /\ UNCHANGED <<pstep, fsWrites, loss, pretrain>>
         ELSE /\ fsWrites' = fsWrites \cup
                    (IF pstep % cfg.tb_every = 0 THEN {"tb_pretrain"} ELSE {})
              /\ pretrain' = [stepped   |-> pretrain.stepped \cup PretrainOptimizers(cfg),
                              scheduled |-> pretrain.scheduled \cup PretrainScheduled(cfg)]
              /\ loss' = RetinexTrainStepLoss(cfg)
              /\ pstep' = pstep + 1
              /\ pc' = IF pstep + 1 < cfg.pretrain_steps THEN "pretrain"
                       ELSE "main_loader"
              /\ err' = err
    /\ UNCHANGED <<cfg, metrics, niqe, rendered, shards, data, trainset, call,
                   loaded, ckpts, optimizers, colors_out, step, splats,
                   optState, running_stats, strategy_state, schedulers,
                   schedSteps, steppedOpts, events, render, dispatched>>

\* train creates the loader iterator of the main loop.
MainLoopBegin ==
    /\ pc = "main_loader"
    /\ trainloader_iter' = 0
    /\ fetched' = 0
    /\ pc' = IF cfg.max_steps > 0 THEN TrainOrder[1] ELSE "done"
    /\ UNCHANGED <<cfg, pretrain, metrics, niqe, rendered, shards, data,
                   trainset, call, loaded, ckpts, optimizers, colors_out,
                   retinex_calls, loss, err, step, pstep, splats, optState,
                   running_stats, strategy_state, schedulers, schedSteps,
                   steppedOpts, events, fsWrites, render, dispatched>>

---------------------------------------------------------------------------
(* Runner.train: the forward half of one iteration *)

\* The optional keys a batch of the training loader can carry. The Dataset is
\* built with load_depths = cfg.depth_loss; what it then yields is its own
\* business, so under depth_loss every combination is an input.
DepthKeys == {"points", "depths"}

Batches(c) == IF c.depth_loss THEN SUBSET DepthKeys ELSE {{}}

\* render_mode passed to rasterize_splats, and whether the renderings then
\* carry a fourth (depth) channel.
RenderMode(c) == IF c.depth_loss THEN "RGB+ED" ELSE "RGB"

HasDepthChannel(c) == RenderMode(c) = "RGB+ED"

\* Depth inputs that are never looked at.
DepthInputError_Unchecked(c, batch, at) == ""

\* What the two places that look at the depth inputs raise ("" if nothing).
\* "unpack": data["points"] and data["depths"] are read, in that order, iff
\* cfg.depth_loss. "assert": the assertions that open the depth-loss block;
\* a key the unpacking has read cannot be None there.
DepthInputError(c, batch, at) ==
    IF ~c.depth_loss THEN ""
    ELSE IF at = "unpack"
        THEN IF "points" \notin batch THEN "KeyError: points"
             ELSE IF "depths" \notin batch THEN "KeyError: depths"
             ELSE ""
    ELSE IF "depths" \notin batch
        THEN "AssertionError: Depth ground truth is required for depth loss"
    ELSE IF "points" \notin batch
        THEN "AssertionError: Points are required for depth loss"
    ELSE IF ~HasDepthChannel(c)
        THEN "AssertionError: Low-resolution depths are required for depth loss"
    ELSE ""

\* Fetch that treats an exhausted iterator as the end of the iteration: it
\* re-creates the iterator and goes on to the next value of step.
Fetch_SkipOnExhaustion ==
    /\ pc = "fetch"
    /\ \E batch \in Batches(cfg) :
          /\ data' = batch
          /\ IF trainloader_iter < trainset
               THEN /\ trainloader_iter' = trainloader_iter + 1
                    /\ fetched' = fetched + 1
                    /\ err' = DepthInputError(cfg, batch, "unpack")
                    /\ pc' = IF DepthInputError(cfg, batch, "unpack") # "" THEN "fatal"
                             ELSE Succ("fetch")
               ELSE /\ trainloader_iter' = 0
                    /\ fetched' = fetched
                    /\ err' = err
                    /\ pc' = "iter_end"
    /\ UNCHANGED <<cfg, pretrain, metrics, niqe, rendered, shards, trainset,
                   call, loaded, ckpts, optimizers, colors_out, retinex_calls,
                   loss, step, pstep, splats, optState, running_stats,
                   strategy_state, schedulers, schedSteps, steppedOpts,
                   events, fsWrites, render, dispatched>>

\* The head of the loop body: data = next(trainloader_iter), with the
\* iterator re-created on StopIteration.
Fetch ==
    /\ pc = "fetch"
    /\ trainloader_iter' = NextBatch(trainloader_iter, trainset)
    /\ fetched' = fetched + 1
    /\ \E batch \in Batches(cfg) :
          /\ data' = batch
          /\ err' = DepthInputError(cfg, batch, "unpack")
          /\ pc' = IF DepthInputError(cfg, batch, "unpack") # "" THEN "fatal" ELSE Succ("fetch")
    /\ UNCHANGED <<cfg, pretrain, metrics, niqe, rendered, shards, trainset,
                   call, loaded, ckpts, optimizers, colors_out, retinex_calls,
                   loss, step, pstep, splats, optState, running_stats,
                   strategy_state, schedulers, schedSteps, steppedOpts,
                   events, fsWrites, render, dispatched>>

Rasterize ==
    /\ pc = "rasterize"
    /\ render' = Unpack(RasterizeSplats(cfg))
    /\ dispatched' = dispatched \cup AbsgradPlace
    /\ rendered' = rendered \cup {"train"}
    /\ events' = Append(events, "rasterize")
    /\ pc' = Succ("rasterize")
    /\ UNCHANGED <<cfg, pretrain, metrics, niqe, shards, data, trainset, call,
                   loaded, ckpts, optimizers, colors_out, retinex_calls, loss,
                   trainloader_iter, fetched, err, step, pstep, splats,
                   optState, running_stats, strategy_state, schedulers,
                   schedSteps, steppedOpts, fsWrites>>

Processed(colour, ops) == [of |-> colour, ops |-> ops]

NoColors == [enh |-> Processed(NoColour, <<>>), low |-> Processed(NoColour, <<>>)]

\* The alpha tensors after the unpacking: one tensor under both names when
\* rasterize_splats returned three values.
Alphas(c) ==
    IF c.enable_retinex
        THEN [enh |-> "render_enh_alphas", low |-> "render_low_alphas"]
        ELSE [enh |-> "render_alphas", low |-> "render_alphas"]

Clamp == [op |-> "clamp", arg |-> "0,1"]

\* What train does to one rendering before the loss: clamp, bilateral-grid
\* slicing, random-background compositing.
TrainOps(c, alpha) ==
    <<Clamp>>
    \o (IF c.use_bilateral_grid
          THEN <<[op |-> "slice_func", arg |-> "bil_grids,image_ids"]>> ELSE <<>>)
    \o (IF c.random_bkgd THEN <<[op |-> "bkgd", arg |-> alpha]>> ELSE <<>>)

\* TrainColors that slices only the low rendering through the bilateral grid.
TrainColors_SliceLowOnly(c, r) ==
    [ enh |-> Processed(r.enh,
                        TrainOps([c EXCEPT !.use_bilateral_grid = FALSE],
                                 Alphas(c).enh)),
      low |-> Processed(r.low, TrainOps(c, Alphas(c).low)) ]

TrainColors(c, r) ==
    [ enh |-> Processed(r.enh, TrainOps(c, Alphas(c).enh)),
      low |-> Processed(r.low, TrainOps(c, Alphas(c).low)) ]

\* eval clamps both renderings and does nothing else to them.
EvalColors(r) ==
    [ enh |-> Processed(r.enh, <<Clamp>>), low |-> Processed(r.low, <<Clamp>>) ]

\* loss_illumination of train: nine weighted terms, summed with the static
\* weights.
TrainIllumTerms ==
    { <<"lambda_reflect", "reflect_spa">>,
      <<"lambda_illum_exposure", "exposure_val">>,
      <<"lambda_illum_color", "color_val">>,
      <<"lambda_smooth", "smoothing">>,
      <<"lambda_illum_curve", "adaptive_curve">>,
      <<"lambda_laplacian", "laplacian_val">>,
      <<"lambda_gradient", "gradient">>,
      <<"lambda_frequency", "frequency_val">>,
      <<"lambda_edge_aware_smooth", "smooth_edge_aware">> }

\* How train composes `loss` before step_pre_backward.
TrainLoss(c) ==
    IF c.enable_retinex
        THEN [ site            |-> "train",
               weighting       |-> "fixed",
               illum           |-> TrainIllumTerms,
               clipping        |-> FALSE,
               \* F.l1_loss(colors_enh, reflectance_target_permuted.detach())
               enh_l1_target   |-> "detached",
               \* self.ssim(colors_enh..., reflectance_target_permuted...)
               enh_ssim_target |-> "attached",
               mix             |-> { <<"lambda_low", "low_loss">>,
                                     <<"1-lambda_low", "loss_reconstruct_enh">>,
                                     <<"lambda_illumination", "loss_illumination">> },
               extra           |-> {} ]
        ELSE [ site            |-> "train",
               weighting       |-> "none",
               illum           |-> {},
               clipping        |-> FALSE,
               enh_l1_target   |-> "none",
               enh_ssim_target |-> "none",
               mix             |-> { <<"1-ssim_lambda", "l1loss">>,
                                     <<"ssim_lambda", "ssimloss">> },
               extra           |-> {} ]

\* Post-processing of the renderings, then the reconstruction loss and,
\* with enable_retinex, get_retinex_output and the illumination total.
ComposeLoss ==
    /\ pc = "loss"
    /\ colors_out' = TrainColors(cfg, render)
    /\ retinex_calls' = retinex_calls \cup (IF cfg.enable_retinex THEN {"train"} ELSE {})
    /\ loss' = TrainLoss(cfg)
    /\ events' = Append(events, "loss")
    /\ pc' = Succ("loss")
    /\ UNCHANGED <<cfg, pretrain, metrics, niqe, rendered, shards, data,
                   trainset, call, loaded, ckpts, optimizers,
                   trainloader_iter, fetched, err, step, pstep, splats,
                   optState, running_stats, strategy_state, schedulers,
                   schedSteps, steppedOpts, fsWrites, render, dispatched>>

StepPreBackward ==
    /\ pc = "pre_backward"
    /\ dispatched' = dispatched \cup
            {<<"step_pre_backward", DispatchAt("step_pre_backward", cfg.strategy)>>}
    /\ events' = Append(events, "pre_backward")
    /\ pc' = Succ("pre_backward")
    /\ UNCHANGED <<cfg, pretrain, metrics, niqe, rendered, shards, data,
                   trainset, call, loaded, ckpts, optimizers, colors_out,
                   retinex_calls, loss, trainloader_iter, fetched, err, step,
                   pstep, splats, optState, running_stats, strategy_state,
                   schedulers, schedSteps, steppedOpts, fsWrites, render>>

\* The terms added to the loss after step_pre_backward.
ExtraLossTerms(c) ==
    (IF c.depth_loss THEN {"depthloss"} ELSE {})
        \cup (IF c.depth_loss /\ c.enable_retinex THEN {"depthloss_enh"} ELSE {})
        \cup (IF c.use_bilateral_grid THEN {"tvloss"} ELSE {})
        \cup (IF c.opacity_reg THEN {"opacity_reg"} ELSE {})
        \cup (IF c.scale_reg THEN {"scale_reg"} ELSE {})


ExtraLoss ==
    /\ pc = "extra_loss"
    /\ IF DepthInputError(cfg, data, "assert") # ""
         THEN /\ pc' = "fatal"
              /\ err' = DepthInputError(cfg, data, "assert")
              /\ UNCHANGED <<events, loss>>
         ELSE /\ events' = IF ExtraLossTerms(cfg) # {} THEN Append(events, "loss")
                           ELSE events
              /\ loss' = [loss EXCEPT !.extra = ExtraLossTerms(cfg)]
              /\ pc' = Succ("extra_loss")
              /\ err' = err
    /\ UNCHANGED <<cfg, pretrain, metrics, niqe, rendered, shards, trainset,
                   call, loaded, ckpts, optimizers, colors_out, retinex_calls,
                   trainloader_iter, fetched, step, pstep, splats, optState,
                   running_stats, strategy_state, schedulers, schedSteps,
                   steppedOpts, fsWrites, render, dispatched, data>>

Backward ==
    /\ pc = "backward"
    /\ events' = Append(events, "backward")
    /\ pc' = Succ("backward")
    /\ UNCHANGED <<cfg, pretrain, metrics, niqe, rendered, shards, data,
                   trainset, call, loaded, ckpts, optimizers, colors_out,
                   retinex_calls, loss, trainloader_iter, fetched, err, step,
                   pstep, splats, optState, running_stats, strategy_state,
                   schedulers, schedSteps, steppedOpts, fsWrites, render,
                   dispatched>>

---------------------------------------------------------------------------
(* Runner.train: logging, checkpoint, export *)

TrainLogWrites(c, s) ==
    IF c.world.rank = 0 /\ c.tb_every > 0 /\ s % c.tb_every = 0
        THEN {"tb_train"} ELSE {}

LogTrain ==
    /\ pc = "log"
    /\ fsWrites' = fsWrites \cup TrainLogWrites(cfg, step)
    /\ pc' = Succ("log")
    /\ UNCHANGED <<cfg, pretrain, metrics, niqe, rendered, shards, data,
                   trainset, call, loaded, ckpts, optimizers, colors_out,
                   retinex_calls, loss, trainloader_iter, fetched, err, step,
                   pstep, splats, optState, running_stats, strategy_state,
                   schedulers, schedSteps, steppedOpts, events, render,
                   dispatched>>

\* The keys of data_save.
CheckpointKeys(c) ==
    {"step", "splats"}
        \cup (IF c.pose_opt THEN {"pose_adjust"} ELSE {})
        \cup (IF c.app_opt THEN {"app_module"} ELSE {})
        \cup (IF c.use_bilateral_grid THEN {"bil_grids"} ELSE {})
        \cup (IF c.enable_retinex THEN {"retinex_net"} ELSE {})

\* The modules and parameters the retinex optimizers step: net_params of
\* retinex_optimizer (the refinement net is a submodule of retinex_net) and
\* the embedding table of retinex_embed_optimizer.
RetinexTrained(c) ==
    IF c.enable_retinex
        THEN {"retinex_net", "loss_edge_aware_smooth", "loss_adaptive_curve",
              "loss_spatial", "global_mean_val_param", "retinex_embeds"}
        ELSE {}

\* The modules whose state_dict() goes into data_save["retinex_net"].
RetinexSaved(c) == IF c.enable_retinex THEN {"retinex_net"} ELSE {}

Checkpoint(c, s, sp) ==
    [ step |-> s, n |-> sp["means"].n, keys |-> CheckpointKeys(c),
      retinex_state |-> RetinexSaved(c) ]

SaveCheckpoint ==
    /\ pc = "save"
    /\ IF ~IsSaveStep(cfg, step)
         THEN /\ pc' = Succ("save")
              /\ UNCHANGED <<err, fsWrites, ckpts>>
         ELSE IF cfg.use_bilateral_grid /\ cfg.world.size > 1
         \* bil_grids is never DDP-wrapped, yet .module is read when world_size > 1
         THEN /\ fsWrites' = fsWrites \cup {"train_stats_json"}
              /\ pc' = "fatal"
              /\ err' = "AttributeError: bil_grids.module"
              /\ ckpts' = ckpts
         ELSE /\ fsWrites' = fsWrites \cup {"train_stats_json", "ckpt"}
              /\ ckpts' = ckpts \cup {Checkpoint(cfg, step, splats)}
              /\ pc' = Succ("save")
              /\ err' = err
    /\ UNCHANGED <<cfg, pretrain, metrics, niqe, rendered, shards, data,
                   trainset, call, loaded, optimizers, colors_out,
                   retinex_calls, loss, trainloader_iter, fetched, step,
                   pstep, splats, optState, running_stats, strategy_state,
                   schedulers, schedSteps, steppedOpts, events, render,
                   dispatched>>

ExportPly ==
    /\ pc = "ply"
    /\ fsWrites' = fsWrites \cup (IF IsPlyStep(cfg, step) THEN {"ply"} ELSE {})
    /\ pc' = Succ("ply")
    /\ UNCHANGED <<cfg, pretrain, metrics, niqe, rendered, shards, data,
                   trainset, call, loaded, ckpts, optimizers, colors_out,
                   retinex_calls, loss, trainloader_iter, fetched, err, step,
                   pstep, splats, optState, running_stats, strategy_state,
                   schedulers, schedSteps, steppedOpts, events, render,
                   dispatched>>

---------------------------------------------------------------------------
(* Runner.train: optimizer and scheduler steps *)

\* An optimizer whose moment buffers exist with a leading dimension other
\* than its parameter's cannot step.
ShapeMismatch ==
    \E g \in DOMAIN splats : optState[g] # 0 /\ optState[g] # splats[g].n

\* How the main loop calls step on the scene optimizers.
StepCall(c) == IF c.visible_adam THEN "step(visibility_mask)" ELSE "step()"

\* What the statements from the sparse-gradient conversion to the scene
\* optimizers' step raise, "" if nothing: sparse_grad asserts cfg.packed; an
\* optimizer that is not a SelectiveAdam takes the argument of step as its
\* closure and calls it.
StepError(c) ==
    IF c.sparse_grad /\ ~c.packed
        THEN "AssertionError: packed"
    ELSE IF StepCall(c) = "step(visibility_mask)" /\ OptimizerClass(c) # "SelectiveAdam"
        THEN "TypeError: 'Tensor' object is not callable"
    ELSE ""

OptimizerSteps ==
    /\ pc = "opt_step"
    /\ IF StepError(cfg) # ""
         THEN /\ pc' = "fatal"
              /\ err' = StepError(cfg)
              /\ UNCHANGED <<splats, optState, steppedOpts, events>>
         ELSE IF ShapeMismatch
         THEN /\ pc' = "fatal"
              /\ err' = "RuntimeError: optimizer state shape"
              /\ UNCHANGED <<splats, optState, steppedOpts, events>>
         ELSE /\ splats' = [g \in DOMAIN splats |->
                                [splats[g] EXCEPT !.ver = splats[g].ver + 1]]
              /\ optState' = [g \in DOMAIN splats |-> splats[g].n]
              /\ steppedOpts' = steppedOpts \cup MainLoopOptimizers(cfg)
              /\ events' = Append(events, "opt_step")
              /\ pc' = Succ("opt_step")
              /\ err' = err
    /\ UNCHANGED <<cfg, pretrain, metrics, niqe, rendered, shards, data,
                   trainset, call, loaded, ckpts, optimizers, colors_out,
                   retinex_calls, loss, trainloader_iter, fetched, step,
                   pstep, running_stats, strategy_state, schedulers,
                   schedSteps, fsWrites, render, dispatched>>

\* SchedulerSteps that advances the schedulers only on iterations whose loss
\* had no late (depth / total-variation / regularisation) term.
SchedulerSteps_SkipOnExtraLoss ==
    /\ pc = "sched_step"
    /\ schedSteps' = [i \in DOMAIN schedSteps |->
                        IF ExtraLossTerms(cfg) # {}
                        THEN schedSteps[i] ELSE schedSteps[i] + 1]
    /\ events' = Append(events, "sched_step")
    /\ pc' = Succ("sched_step")
    /\ UNCHANGED <<cfg, pretrain, metrics, niqe, rendered, shards, data,
                   trainset, call, loaded, ckpts, optimizers, colors_out,
                   retinex_calls, loss, trainloader_iter, fetched, err, step,
                   pstep, splats, optState, running_stats, strategy_state,
                   schedulers, steppedOpts, fsWrites, render, dispatched>>

SchedulerSteps ==
    /\ pc = "sched_step"
    /\ schedSteps' = [i \in DOMAIN schedSteps |-> schedSteps[i] + 1]
    /\ events' = Append(events, "sched_step")
    /\ pc' = Succ("sched_step")
    /\ UNCHANGED <<cfg, pretrain, metrics, niqe, rendered, shards, data,
                   trainset, call, loaded, ckpts, optimizers, colors_out,
                   retinex_calls, loss, trainloader_iter, fetched, err, step,
                   pstep, splats, optState, running_stats, strategy_state,
                   schedulers, steppedOpts, fsWrites, render, dispatched>>

---------------------------------------------------------------------------
(* step_post_backward: the density mutation *)

\* Changes of the Gaussian count one step_post_backward call may make:
\* the heuristic variant splits/duplicates and prunes, the MCMC variant
\* relocates and adds.
StrategyDeltas(variant) ==
    IF variant = "default" THEN {-1, 0, 1} ELSE {0, 1}

\* A mutation by d rows: every group and every existing optimizer state is
\* resized together; d = 0 leaves everything as it was.
MutateSplats(sp, d) ==
    [g \in DOMAIN sp |->
        [n |-> sp[g].n + d, ver |-> sp[g].ver + (IF d = 0 THEN 0 ELSE 1)]]

MutateOptState(os, d) ==
    [g \in DOMAIN os |-> IF os[g] = 0 THEN 0 ELSE os[g] + d]

StepPostBackward ==
    /\ pc = "post_backward"
    /\ dispatched' = dispatched \cup
            {<<"step_post_backward", DispatchAt("step_post_backward", cfg.strategy)>>}
    /\ IF DispatchAt("step_post_backward", cfg.strategy) = "fatal"
         THEN /\ pc' = "fatal"
              /\ err' = "AssertionError: assert_never(strategy)"
              /\ UNCHANGED <<splats, optState, events>>
         ELSE \E d \in StrategyDeltas(cfg.strategy) :
              /\ splats["means"].n + d >= 1
              /\ splats["means"].n + d <= MaxN
              /\ splats' = MutateSplats(splats, d)
              /\ optState' = MutateOptState(optState, d)
              /\ events' = IF d = 0 THEN Append(events, "post_backward")
                           ELSE events \o <<"post_backward", "mutate">>
              /\ pc' = Succ("post_backward")
              /\ err' = err
    /\ UNCHANGED <<cfg, pretrain, metrics, niqe, rendered, shards, data,
                   trainset, call, loaded, ckpts, optimizers, colors_out,
                   retinex_calls, loss, trainloader_iter, fetched, step,
                   pstep, running_stats, strategy_state, schedulers,
                   schedSteps, steppedOpts, fsWrites, render>>

---------------------------------------------------------------------------
(* Runner.eval, Runner.render_traj, Runner.run_compression *)

\* EvalWrites without the world_rank == 0 guard.
EvalWrites_Ungated(world_rank) ==
    {"eval_image", "eval_stats_json", "tb_eval"}

\* What one call of Runner.eval writes: images, stats JSON and tensorboard
\* scalars, all under `if world_rank == 0`.
EvalWrites(world_rank) ==
    IF world_rank = 0 THEN {"eval_image", "eval_stats_json", "tb_eval"} ELSE {}

Eval ==
    /\ pc = "eval"
    /\ IF IsEvalStep(cfg, step)
         THEN /\ render' = Unpack(RasterizeSplats(cfg))
              /\ colors_out' = EvalColors(Unpack(RasterizeSplats(cfg)))
              /\ dispatched' = dispatched \cup AbsgradPlace
              /\ rendered' = rendered \cup {"eval"}
              /\ niqe' = NiqeAfterCall(cfg, niqe, "eval")
              /\ metrics' = EvalMetrics(cfg, niqe)
              /\ fsWrites' = fsWrites \cup EvalWrites(cfg.world.rank)
         ELSE UNCHANGED <<render, colors_out, dispatched, rendered, niqe, metrics, fsWrites>>
    /\ pc' = Succ("eval")
    /\ UNCHANGED <<cfg, pretrain, shards, data, trainset, call, loaded, ckpts,
                   optimizers, retinex_calls, loss, trainloader_iter, fetched,
                   err, step, pstep, splats, optState, running_stats,
                   strategy_state, schedulers, schedSteps, steppedOpts,
                   events>>

TrajPaths == {"interp", "ellipse", "spiral"}

\* render_traj returns early with disable_video or on a non-zero rank,
\* before it looks at render_traj_path.
TrajSkipped(c) == c.disable_video \/ c.world.rank # 0

RenderTraj ==
    /\ pc = "traj"
    /\ IF ~IsEvalStep(cfg, step) \/ TrajSkipped(cfg)
         THEN /\ pc' = Succ("traj")
              /\ UNCHANGED <<err, dispatched, rendered, niqe, fsWrites>>
         ELSE IF cfg.render_traj_path \notin TrajPaths
         THEN /\ pc' = "fatal"
              /\ err' = "ValueError: render_traj_path"
              /\ UNCHANGED <<dispatched, rendered, niqe, fsWrites>>
         ELSE /\ dispatched' = dispatched \cup AbsgradPlace
              /\ rendered' = rendered \cup {"traj"}
              /\ niqe' = NiqeAfterCall(cfg, niqe, "traj")
              /\ fsWrites' = fsWrites \cup {"video"}
              /\ pc' = Succ("traj")
              /\ err' = err
    /\ UNCHANGED <<cfg, pretrain, metrics, shards, data, trainset, call,
                   loaded, ckpts, optimizers, colors_out, retinex_calls, loss,
                   trainloader_iter, fetched, step, pstep, splats, optState,
                   running_stats, strategy_state, schedulers, schedSteps,
                   steppedOpts, events, render>>

ISqrt(n) == CHOOSE r \in 0 .. n : r * r <= n /\ (r + 1) * (r + 1) > n

\* PngCompression lays the Gaussians out on a square grid: compress() crops
\* the count to the largest square and quantises every tensor, so what
\* decompress() returns has ISqrt(n)^2 rows of rewritten values.
CodecRoundTrip(sp) ==
    [g \in DOMAIN sp |->
        [n |-> ISqrt(sp[g].n) * ISqrt(sp[g].n), ver |-> sp[g].ver + 1]]

RunCompression ==
    /\ pc = "compress"
    /\ IF cfg.compression # "none" /\ IsEvalStep(cfg, step)
         THEN /\ splats' = CodecRoundTrip(splats)
              /\ events' = IF CodecRoundTrip(splats)["means"].n # splats["means"].n
                             THEN Append(events, "mutate") ELSE events
              /\ fsWrites' = fsWrites \cup {"compress_dir", "compress_artifact"}
                                      \cup EvalWrites(cfg.world.rank)
              /\ render' = Unpack(RasterizeSplats(cfg))
              /\ colors_out' = EvalColors(Unpack(RasterizeSplats(cfg)))
              /\ dispatched' = dispatched \cup AbsgradPlace
              /\ rendered' = rendered \cup {"compress"}
              /\ niqe' = NiqeAfterCall(cfg, niqe, "compress")
              /\ metrics' = EvalMetrics(cfg, niqe)
         ELSE UNCHANGED <<splats, events, fsWrites, render, colors_out,
                          dispatched, rendered, niqe, metrics>>
    /\ pc' = Succ("compress")
    /\ UNCHANGED <<cfg, pretrain, shards, data, trainset, call, loaded, ckpts,
                   optimizers, retinex_calls, loss, trainloader_iter, fetched,
                   err, step, pstep, optState, running_stats, strategy_state,
                   schedulers, schedSteps, steppedOpts>>

\* The loop header: the next value of `step`, or the end of train().
NextIteration ==
    /\ pc = "iter_end"
    /\ step' = step + 1
    /\ events' = <<>>
    /\ pc' = IF step + 1 < cfg.max_steps THEN TrainOrder[1] ELSE "done"
    /\ UNCHANGED <<cfg, pretrain, metrics, niqe, rendered, shards, data,
                   trainset, call, loaded, ckpts, optimizers, colors_out,
                   retinex_calls, loss, trainloader_iter, fetched, err, pstep,
                   splats, optState, running_stats, strategy_state,
                   schedulers, schedSteps, steppedOpts, fsWrites, render,
                   dispatched>>

---------------------------------------------------------------------------
(* main: resuming from cfg.ckpt *)

\* The rows of the i-th checkpoint's tensors, each tagged with its file.
CkptRows(files, i) == [r \in 1 .. files[i].n |-> <<i, r>>]

\* LoadedRows with the list of checkpoints walked from its last file to its
\* first.
RECURSIVE LoadedRows_LastFirst(_, _)
LoadedRows_LastFirst(files, k) ==
    IF k = 0 THEN <<>>
    ELSE CkptRows(files, k) \o LoadedRows_LastFirst(files, k - 1)

\* torch.cat([c["splats"][k_splat] for c in ckpts_loaded]): the rows of the
\* first k files, in list order.
RECURSIVE LoadedRows(_, _)
LoadedRows(files, k) ==
    IF k = 0 THEN <<>>
    ELSE LoadedRows(files, k - 1) \o CkptRows(files, k)

NotLoaded == [step |-> -1, rows |-> <<>>, restored |-> {}]

\* The optional sub-states main loads back from the first file: pose_adjust
\* and app_module, each if its feature is on and the file has the key. The
\* files are checkpoints train wrote under the same configuration.
RestoredKeys(c) ==
    (IF c.pose_opt /\ "pose_adjust" \in CheckpointKeys(c) THEN {"pose_adjust"} ELSE {})
        \cup (IF c.app_opt /\ "app_module" \in CheckpointKeys(c)
                THEN {"app_module"} ELSE {})

\* Whether main takes the concatenating branch.
Concatenates(c) == Len(c.ckpt.files) > 1 /\ c.world.size > 1

LoadCheckpoints ==
    /\ pc = "constructed"
    /\ cfg.ckpt.given
    /\ IF cfg.ckpt.files = <<>>
         THEN /\ pc' = "resumed"
              /\ UNCHANGED <<err, splats, loaded>>
         ELSE IF Concatenates(cfg)
         THEN LET rows == LoadedRows(cfg.ckpt.files, Len(cfg.ckpt.files))
              IN  /\ splats' = [g \in DOMAIN splats |->
                                    [n |-> Len(rows), ver |-> splats[g].ver + 1]]
                  /\ loaded' = [step |-> cfg.ckpt.files[1].step, rows |-> rows,
                                restored |-> RestoredKeys(cfg)]
                  /\ pc' = "resume_eval"
                  /\ err' = err
         ELSE IF cfg.ckpt.files[1].n # splats["means"].n
         \* splats.load_state_dict(ckpts_loaded[0]["splats"]) copies into the
         \* existing parameters and rejects tensors of another shape
         THEN /\ pc' = "fatal"
              /\ err' = "RuntimeError: load_state_dict size mismatch"
              /\ UNCHANGED <<splats, loaded>>
         ELSE /\ splats' = [g \in DOMAIN splats |->
                                [splats[g] EXCEPT !.ver = splats[g].ver + 1]]
              /\ loaded' = [step |-> cfg.ckpt.files[1].step,
                            rows |-> LoadedRows(cfg.ckpt.files, 1),
                            restored |-> RestoredKeys(cfg)]
              /\ pc' = "resume_eval"
              /\ err' = err
    /\ UNCHANGED <<cfg, pretrain, metrics, niqe, rendered, shards, data,
                   trainset, call, ckpts, optimizers, colors_out,
                   retinex_calls, loss, trainloader_iter, fetched, step,
                   pstep, optState, running_stats, strategy_state, schedulers,
                   schedSteps, steppedOpts, events, fsWrites, render,
                   dispatched>>

\* runner.eval(step=step_loaded)
ResumeEval ==
    /\ pc = "resume_eval"
    /\ render' = Unpack(RasterizeSplats(cfg))
    /\ colors_out' = EvalColors(Unpack(RasterizeSplats(cfg)))
    /\ dispatched' = dispatched \cup AbsgradPlace
    /\ rendered' = rendered \cup {"eval"}
    /\ niqe' = NiqeAfterCall(cfg, niqe, "eval")
    /\ metrics' = EvalMetrics(cfg, niqe)
    /\ fsWrites' = fsWrites \cup EvalWrites(cfg.world.rank)
    /\ pc' = "resume_traj"
    /\ UNCHANGED <<cfg, pretrain, shards, data, trainset, call, loaded, ckpts,
                   optimizers, retinex_calls, loss, trainloader_iter, fetched,
                   err, step, pstep, splats, optState, running_stats,
                   strategy_state, schedulers, schedSteps, steppedOpts,
                   events>>

\* runner.render_traj(step=step_loaded)
ResumeTraj ==
    /\ pc = "resume_traj"
    /\ IF TrajSkipped(cfg)
         THEN /\ pc' = "resume_compress"
              /\ UNCHANGED <<err, dispatched, rendered, niqe, fsWrites>>
         ELSE IF cfg.render_traj_path \notin TrajPaths
         THEN /\ pc' = "fatal"
              /\ err' = "ValueError: render_traj_path"
              /\ UNCHANGED <<dispatched, rendered, niqe, fsWrites>>
         ELSE /\ dispatched' = dispatched \cup AbsgradPlace
              /\ rendered' = rendered \cup {"traj"}
              /\ niqe' = NiqeAfterCall(cfg, niqe, "traj")
              /\ fsWrites' = fsWrites \cup {"video"}
              /\ pc' = "resume_compress"
              /\ err' = err
    /\ UNCHANGED <<cfg, pretrain, metrics, shards, data, trainset, call,
                   loaded, ckpts, optimizers, colors_out, retinex_calls, loss,
                   trainloader_iter, fetched, step, pstep, splats, optState,
                   running_stats, strategy_state, schedulers, schedSteps,
                   steppedOpts, events, render>>

\* runner.run_compression(step=step_loaded), when a compression is configured
ResumeCompression ==
    /\ pc = "resume_compress"
    /\ IF cfg.compression # "none"
         THEN /\ splats' = CodecRoundTrip(splats)
              /\ fsWrites' = fsWrites \cup {"compress_dir", "compress_artifact"}
                                      \cup EvalWrites(cfg.world.rank)
              /\ render' = Unpack(RasterizeSplats(cfg))
              /\ colors_out' = EvalColors(Unpack(RasterizeSplats(cfg)))
              /\ dispatched' = dispatched \cup AbsgradPlace
              /\ rendered' = rendered \cup {"compress"}
              /\ niqe' = NiqeAfterCall(cfg, niqe, "compress")
              /\ metrics' = EvalMetrics(cfg, niqe)
         ELSE UNCHANGED <<splats, fsWrites, render, colors_out, dispatched,
                          rendered, niqe, metrics>>
    /\ pc' = "resumed"
    /\ UNCHANGED <<cfg, pretrain, shards, data, trainset, call, loaded, ckpts,
                   optimizers, retinex_calls, loss, trainloader_iter, fetched,
                   err, step, pstep, optState, running_stats, strategy_state,
                   schedulers, schedSteps, steppedOpts, events>>

---------------------------------------------------------------------------
(* The total of retinex_train_step as arithmetic *)

Idx == 1 .. NumTerms

RECURSIVE SumTo(_, _)
SumTo(f, n) == IF n = 0 THEN 0 ELSE SumTo(f, n - 1) + f[n]

\* Tensor.sum() of a stack of NumTerms scalars
Sum(f) == SumTo(f, NumTerms)

RECURSIVE Pow2(_)
Pow2(n) == IF n = 0 THEN 1 ELSE 2 * Pow2(n - 1)

\* WeightedSum that sums the stacked terms without their weights.
WeightedSum_Unweighted(losses, lambdas) ==
    Sum([i \in Idx |-> losses[i]])

\* (base_lambdas * individual_losses).sum()
WeightedSum(losses, lambdas) ==
    Sum([i \in Idx |-> lambdas[i] * losses[i]])

\* The value retinex_train_step returns.  A log-variance is given in units of
\* ln 2 and is at most 0, so exp(-log_var) is the integer Pow2(-log_var); the
\* result is kept as twice its rational part and twice its multiple of ln 2.
RetinexTotalLoss(c, losses, lambdas, log_vars, clip_high, clip_low) ==
    LET weighted ==
            IF LossWeighting(c) = "learned"
              THEN [ twice     |-> Sum([i \in Idx |->
                                        lambdas[i] * losses[i] * Pow2(-log_vars[i])]),
                     twice_ln2 |-> Sum(log_vars) ]
              ELSE [ twice     |-> 2 * WeightedSum(losses, lambdas),
                     twice_ln2 |-> 0 ]
        lambda_clipping == 1
    IN  [ weighted EXCEPT
            !.twice = @ + 2 * lambda_clipping * (clip_high + clip_low) ]

NoCall ==
    [ losses |-> <<>>, lambdas |-> <<>>, log_vars |-> <<>>, clip_high |-> 0,
      clip_low |-> 0, returned |-> FALSE, total |-> [twice |-> 0, twice_ln2 |-> 0] ]

\* Stacks of term values with at most two non-zero entries.
TermVectors ==
    { [i \in Idx |-> IF i = a THEN x ELSE IF i = b THEN y ELSE 0] :
        a \in Idx, b \in Idx, x \in 0 .. MaxTermValue, y \in 0 .. MaxTermValue }

WeightVectors ==
    { [i \in Idx |-> a + b * i] : a \in 0 .. MaxWeight, b \in 0 .. MaxWeight }

LogVarVectors == { [i \in Idx |-> 0], [i \in Idx |-> 0 - (i % 2)] }

RetinexCalls ==
    { [ losses |-> l, lambdas |-> w, log_vars |-> s, clip_high |-> h,
        clip_low |-> o, returned |-> FALSE,
        total |-> [twice |-> 0, twice_ln2 |-> 0] ] :
        l \in TermVectors, w \in WeightVectors, s \in LogVarVectors,
        h \in 0 .. MaxClip, o \in 0 .. MaxClip }

LossConfigs ==
    { [BaseCfg EXCEPT !.enable_retinex = TRUE, !.enable_dynamic_weights = d,
                      !.multi_scale_retinex = m] : d \in BOOLEAN, m \in BOOLEAN }

RetinexTrainStepTotal ==
    /\ call # NoCall
    /\ ~call.returned
    /\ call' = [call EXCEPT
                  !.returned = TRUE,
                  !.total = RetinexTotalLoss(cfg, call.losses, call.lambdas,
                                             call.log_vars, call.clip_high,
                                             call.clip_low)]
    /\ UNCHANGED <<cfg, pretrain, metrics, niqe, rendered, shards, data,
                   trainset, loaded, ckpts, optimizers, colors_out,
                   retinex_calls, loss, trainloader_iter, fetched, pc, err,
                   step, pstep, splats, optState, running_stats,
                   strategy_state, schedulers, schedSteps, steppedOpts,
                   events, fsWrites, render, dispatched>>

---------------------------------------------------------------------------
(* The process *)

\* The state of a process that has not constructed its Runner yet.
NotStarted ==
    /\ pc = "start"
    /\ pretrain = NoPretrain
    /\ metrics = {}
    /\ niqe = NoNiqe
    /\ rendered = {}
    /\ data = {}
    /\ trainloader_iter = 0
    /\ fetched = 0
    /\ optimizers = <<>>
    /\ colors_out = NoColors
    /\ retinex_calls = {}
    /\ loss = NoLoss
    /\ ckpts = {}
    /\ loaded = NotLoaded

Init ==
    /\ \E inputs \in Inputs :
          /\ cfg = CfgOf(inputs)
          /\ trainset = inputs.trainset
    /\ call = NoCall
    /\ shards = NoShards
    /\ NotStarted
    /\ err = ""
    /\ step = 0
    /\ pstep = 0
    /\ splats = <<>>
    /\ optState = <<>>
    /\ running_stats = 0
    /\ strategy_state = "none"
    /\ schedulers = <<>>
    /\ schedSteps = <<>>
    /\ steppedOpts = {}
    /\ events = <<>>
    /\ fsWrites = {}
    /\ render = NoRender
    /\ dispatched = {}

Next ==
    \/ Construct
    \/ LoadCheckpoints
    \/ ResumeEval
    \/ ResumeTraj
    \/ ResumeCompression
    \/ TrainBegin
    \/ PretrainStep
    \/ MainLoopBegin
    \/ Fetch
    \/ Rasterize
    \/ ComposeLoss
    \/ StepPreBackward
    \/ ExtraLoss
    \/ Backward
    \/ LogTrain
    \/ SaveCheckpoint
    \/ ExportPly
    \/ OptimizerSteps
    \/ SchedulerSteps
    \/ StepPostBackward
    \/ Eval
    \/ RenderTraj
    \/ RunCompression
    \/ NextIteration

Spec == Init /\ [][Next]_vars

\* The process is one sequential program that keeps running until it ends or
\* raises: some step is taken whenever one is possible.
FairSpec == Spec /\ WF_vars(Next)

\* The arithmetic of retinex_train_step on its own: any term values, weights,
\* log-variances and clipping excesses, under each weighting configuration.
LossInit ==
    /\ cfg \in LossConfigs
    /\ trainset = 1
    /\ call \in RetinexCalls
    /\ shards = NoShards
    /\ NotStarted
    /\ err = ""
    /\ step = 0
    /\ pstep = 0
    /\ splats = <<>>
    /\ optState = <<>>
    /\ running_stats = 0
    /\ strategy_state = "none"
    /\ schedulers = <<>>
    /\ schedSteps = <<>>
    /\ steppedOpts = {}
    /\ events = <<>>
    /\ fsWrites = {}
    /\ render = NoRender
    /\ dispatched = {}

LossNext == RetinexTrainStepTotal

LossSpec == LossInit /\ [][LossNext]_vars

---------------------------------------------------------------------------
(* Properties *)

Range(seq) == { seq[i] : i \in DOMAIN seq }

IsPrefix(a, b) ==
    Len(a) <= Len(b) /\ \A i \in 1 .. Len(a) : a[i] = b[i]

NotMutate(e) == e # "mutate"

\* The events of the current iteration without the structural mutations.
HookEvents == SelectSeq(events, NotMutate)

ExactOrder ==
    << "rasterize", "loss", "pre_backward", "backward", "opt_step",
       "sched_step", "post_backward" >>

OrderWithLateTerms ==
    << "rasterize", "loss", "pre_backward", "loss", "backward", "opt_step",
       "sched_step", "post_backward" >>

\* No structural mutation of SceneState between backward() and the
\* optimizer steps of the iteration.
NoMutationBeforeOptStep ==
    \A i \in 1 .. Len(events) :
        (events[i] = "mutate" /\ \E j \in 1 .. i : events[j] = "backward")
            => \E k \in 1 .. i : events[k] = "opt_step"

\* C1 as stated: in every iteration the events occur in exactly the order
\* rasterize_splats, loss composition, step_pre_backward, backward(),
\* optimizer steps, scheduler steps, step_post_backward, with no structural
\* mutation between backward() and the optimizer steps.
C1_ExactOrder ==
    /\ IsPrefix(HookEvents, ExactOrder)
    /\ NoMutationBeforeOptStep

\* C1 (amended): the order is rasterize_splats, composition of the
\* reconstruction/illumination loss, step_pre_backward, then (when depth
\* loss, bilateral grid or opacity/scale regularisation is enabled) the
\* addition of those terms to the loss, backward(), the optimizer steps, the
\* scheduler steps, step_post_backward; a completed iteration has all of
\* them, and no structural mutation lies between backward() and the
\* optimizer steps.
C1_Order ==
    /\ IsPrefix(HookEvents,
                IF ExtraLossTerms(cfg) = {} THEN ExactOrder ELSE OrderWithLateTerms)
    /\ pc = "iter_end" =>
          HookEvents = (IF ExtraLossTerms(cfg) = {} THEN ExactOrder
                                                     ELSE OrderWithLateTerms)
    /\ NoMutationBeforeOptStep

C1_Witness ==
    /\ pc = "iter_end"
    /\ step = 1
    /\ ExtraLossTerms(cfg) # {}
    /\ "mutate" \in Range(events)
    /\ HookEvents = OrderWithLateTerms

SameN == \A g, h \in DOMAIN splats : splats[g].n = splats[h].n

\* C2 as stated: every SceneState group has the same leading dimension N, and
\* when a scene optimizer's step() runs, its parameter and its internal state
\* have that same N.
C2_SameNAtOptimizerStep ==
    /\ SameN
    /\ pc = "opt_step" => ~ShapeMismatch

\* C3 as stated: SceneState is written only by optimizer steps and strategy
\* hooks (after its construction), so eval, render_traj, run_compression,
\* checkpoint saving and ply export leave every group unchanged.
C3_OnlyOptimizerAndStrategyWrite ==
    [][ (pc # "start" /\ splats' # splats)
            => pc \in {"opt_step", "pre_backward", "post_backward"} ]_vars

\* C4 as stated: running_stats has the length of the current Gaussian count
\* in every state of a constructed Runner.
C4_RunningStatsLength ==
    DOMAIN splats # {} => running_stats = splats["means"].n

\* C5 as stated: a worker with world_rank != 0 performs no filesystem write.
C5_NoWriteOffRankZero ==
    cfg.world.rank # 0 => fsWrites = {}

PerRankWrites ==
    {"result_dirs", "tb_writer", "tb_pretrain", "train_stats_json", "ckpt",
     "ply", "compress_dir", "compress_artifact"}

\* C5 (amended): a worker with world_rank != 0 never writes cfg.yml, the
\* main-loop tensorboard entries, evaluation images, eval-stats JSON,
\* evaluation tensorboard entries or the trajectory video; what it writes are
\* the result directories and tensorboard writer of its construction and its
\* own per-rank train-stats JSON, checkpoint, ply export, compression
\* artifacts and pretraining tensorboard entries.
C5_RankZeroGatedWrites ==
    cfg.world.rank # 0 => fsWrites \subseteq PerRankWrites

C5_Witness ==
    /\ cfg.world.rank # 0
    /\ pc = "done"
    /\ cfg.eval_steps # {}
    /\ cfg.compression = "png"
    /\ {"ckpt", "compress_artifact"} \subseteq fsWrites

\* C6 as stated: every strategy-dependent place that has executed
\* distinguished the variant explicitly or ended in a fatal error.
C6_EveryPlaceExhaustive ==
    \A d \in dispatched : d[2] \in {"explicit", "fatal"}

\* C6 (amended): strategy-state initialisation and the step_post_backward
\* dispatch distinguish DefaultStrategy and MCMCStrategy explicitly and are
\* fatal for any other variant; the absgrad flag of rasterize_splats treats
\* every non-Default variant alike and step_pre_backward is called without
\* branching; since construction comes first, an unrecognized variant ends
\* in a fatal error before rasterize_splats or a hook runs.
C6_UnrecognizedStrategyIsFatal ==
    /\ cfg.strategy \notin KnownStrategies =>
          /\ pc \in {"start", "fatal"}
          /\ dispatched \subseteq {<<"initialize_state", "fatal">>}
          /\ render = NoRender
          /\ events = <<>>
    /\ \A d \in dispatched :
          /\ d[1] \in {"initialize_state", "step_post_backward"}
                => d[2] \in {"explicit", "fatal"}
          /\ d[2] = "fatal" => pc = "fatal"
          /\ d[1] = "absgrad" /\ cfg.strategy # "default" => d[2] = "fallthrough"
          /\ d[1] = "step_pre_backward" => d[2] = "undispatched"

C6_Witness ==
    /\ cfg.strategy \notin KnownStrategies
    /\ pc = "fatal"
    /\ err = "AssertionError: assert_never(strategy)"

HasInvalidEnum(c) ==
    \/ c.init_type \notin {"sfm", "random"}
    \/ c.compression \notin {"none", "png"}
    \/ c.lpips_net \notin {"alex", "vgg"}
    \/ c.render_traj_path \notin TrajPaths
    \/ c.strategy \notin KnownStrategies

\* C7 as stated: with an unrecognized init_type, compression, lpips_net,
\* render_traj_path or strategy the process fails before the first training
\* step: it never gets past construction.
C7_InvalidEnumRejectedAtStart ==
    HasInvalidEnum(cfg) => pc \in {"start", "fatal"} /\ events = <<>> /\ step = 0

\* C8: every main-loop scheduler is advanced exactly once per iteration,
\* after the optimizer steps of that iteration, whatever features are
\* active: after k completed iterations each has been stepped k times.
C8_SchedulersOncePerIteration ==
    /\ DOMAIN schedSteps = DOMAIN schedulers
    /\ \A i \in DOMAIN schedSteps :
          schedSteps[i] = step + (IF "sched_step" \in Range(events) THEN 1 ELSE 0)
    /\ \A i \in 1 .. Len(events) :
          events[i] = "sched_step" => \E j \in 1 .. i - 1 : events[j] = "opt_step"
    /\ pc \in {"iter_end", "done"} \cup Range(TrainOrder) =>
          schedulers = MainSchedulers(cfg)

C8_Witness ==
    /\ pc = "done"
    /\ Len(schedulers) >= 3
    /\ ExtraLossTerms(cfg) # {}
    /\ \A i \in DOMAIN schedSteps : schedSteps[i] = cfg.max_steps

ScheduledOpts == { schedulers[i].opt : i \in DOMAIN schedulers }

\* C9 as stated: every optimizer the main loop steps has a scheduler that
\* the main loop advances.
C9_EveryOptimizerScheduled ==
    steppedOpts \subseteq ScheduledOpts

\* C9 (amended): of the optimizers the main loop steps, exactly the means
\* optimizer and, when present, the retinex network, refinement, retinex
\* embedding, pose and bilateral-grid optimizers have a main-loop scheduler,
\* one each; the other scene-group optimizers, the appearance optimizers and
\* the illumination-adjustment optimizer are stepped with no main-loop
\* scheduler.
C9_ScheduledOptimizers ==
    /\ \A o \in steppedOpts :
          o \in ScheduledOpts <=>
             o \in {"means", "retinex", "refinement", "retinex_embed", "pose",
                    "bil_grid"}
    /\ \A i, j \in DOMAIN schedulers :
          schedulers[i].opt = schedulers[j].opt => i = j

C9_Witness ==
    /\ pc = "done"
    /\ {"means", "scales", "illum", "retinex", "retinex_embed"} \subseteq steppedOpts

\* C10 as stated: with enable_retinex the 'low' output is the raw appearance
\* and the 'enhanced' output is colors*k + b, with (k, b) the per-Gaussian
\* adjust_k/adjust_b, or illum_module(image_ids) under use_illum_opt.
C10_LowRawEnhancedAdjusted ==
    (cfg.enable_retinex /\ render # NoRender) =>
        /\ render.low = Raw
        /\ render.enh = Adjusted(IF cfg.use_illum_opt
                                   THEN "illum_module(image_ids)"
                                   ELSE "splats.adjust_k/adjust_b")

\* C11: with enable_retinex false, in every training and evaluation step the
\* enhanced rendering equals the low rendering, also after clamping,
\* bilateral-grid slicing and random-background compositing;
\* get_retinex_output is never called; and the loss has no illumination
\* term, no enhanced-path term and no clipping penalty.
C11_RetinexDisabledDegenerates ==
    ~cfg.enable_retinex =>
        /\ render.enh = render.low
        /\ colors_out.enh = colors_out.low
        /\ retinex_calls = {}
        /\ loss.illum = {}
        /\ ~loss.clipping
        /\ \A m \in loss.mix :
              m[2] \notin {"loss_illumination", "loss_reconstruct_enh", "total_loss"}
        /\ "depthloss_enh" \notin ExtraLossTerms(cfg)

C11_Witness ==
    /\ ~cfg.enable_retinex
    /\ cfg.use_bilateral_grid
    /\ cfg.random_bkgd
    /\ pc = "pre_backward"
    /\ step = 1
    /\ loss.site = "train"
    /\ colors_out.low.of = Raw
    /\ Len(colors_out.low.ops) = 3

\* The weighted sum written out term by term.
LiteralWeightedSum ==
    call.lambdas[1] * call.losses[1] + call.lambdas[2] * call.losses[2]
    + call.lambdas[3] * call.losses[3] + call.lambdas[4] * call.losses[4]
    + call.lambdas[5] * call.losses[5] + call.lambdas[6] * call.losses[6]
    + call.lambdas[7] * call.losses[7] + call.lambdas[8] * call.losses[8]
    + call.lambdas[9] * call.losses[9] + call.lambdas[10] * call.losses[10]
    + call.lambdas[11] * call.losses[11] + call.lambdas[12] * call.losses[12]

\* C12 as stated: with enable_dynamic_weights false, the total that
\* retinex_train_step returns equals the weighted sum of the twelve
\* unweighted term values, sum of base_lambda_i * loss_i.
C12_TotalIsLiteralWeightedSum ==
    (call.returned /\ ~cfg.enable_dynamic_weights) =>
        call.total = [twice |-> 2 * LiteralWeightedSum, twice_ln2 |-> 0]

\* C12 (amended): with enable_dynamic_weights false, the total that
\* retinex_train_step returns equals the weighted sum of the twelve
\* unweighted term values plus the reflectance clipping penalty with
\* coefficient 1: sum of base_lambda_i * loss_i + clip_high + clip_low.
C12_TotalIsWeightedSumPlusClipping ==
    (call.returned /\ ~cfg.enable_dynamic_weights) =>
        call.total = [twice |-> 2 * (LiteralWeightedSum + call.clip_high
                                         + call.clip_low),
                      twice_ln2 |-> 0]

C12_Witness ==
    /\ call.returned
    /\ ~cfg.enable_dynamic_weights
    /\ call.clip_high > 0
    /\ call.losses[3] > 0
    /\ call.losses[12] > 0
    /\ call.lambdas[3] # call.lambdas[12]
    /\ call.lambdas[3] > 1
    /\ call.total.twice = 2 * (call.lambdas[3] + call.lambdas[12] + call.clip_high
                                   + call.clip_low)

\* C13 as stated: every step that composes the illumination regularization
\* total, the pretraining step and the main training loop alike, adds the
\* reflectance clipping penalty with a fixed coefficient.
C13_ClippingPenaltyAlwaysAdded ==
    loss.illum # {} => loss.clipping

\* The weighting mode the configuration asks for.
ConfiguredWeighting(c) ==
    IF c.enable_dynamic_weights THEN "learned" ELSE "fixed"

\* C14 as stated: the weighting mode is the configured one in every step of
\* a run: every composition of the illumination regularization total, in
\* pretraining steps and in main-loop steps, uses the learned log-variance
\* formula when learned weighting is configured and the fixed weighted sum
\* when it is not.
C14_WeightingModeSameInEveryStep ==
    loss.illum # {} => loss.weighting = ConfiguredWeighting(cfg)

\* C15 as stated: in the main loop with enable_retinex, the L1 term and the
\* structural-similarity term of the enhanced reconstruction loss both
\* compare against the detached reflectance target, and the loss is
\* lambda_low*low_loss + (1-lambda_low)*enhanced_loss
\* + lambda_illumination*illumination_total.
C15_EnhancedLossAgainstDetachedTarget ==
    (cfg.enable_retinex /\ loss.site = "train") =>
        /\ loss.enh_l1_target = "detached"
        /\ loss.enh_ssim_target = "detached"
        /\ loss.mix = { <<"lambda_low", "low_loss">>,
                        <<"1-lambda_low", "loss_reconstruct_enh">>,
                        <<"lambda_illumination", "loss_illumination">> }

\* C16: for every SceneState group the learning rate, eps and betas that
\* create_splats_with_optimizers gives its optimizer depend on batch_size and
\* world_size only through their product: every (batch_size, world_size)
\* pair with the product of the configured pair gives the hyperparameters
\* the Runner was built with.
C16_HyperDependOnBatchTimesWorld ==
    optimizers # <<>> =>
        \A b \in 1 .. 2 * MaxBatchSize, w \in 1 .. 2 * MaxBatchSize :
            b * w = cfg.batch_size * cfg.world.size =>
                \A g \in DOMAIN optimizers :
                    OptimizerHyper(g, b, w) = optimizers[g]

C16_Witness ==
    /\ pc = "constructed"
    /\ cfg.batch_size = 2
    /\ cfg.world.size = 1
    /\ optimizers["means"] = OptimizerHyper("means", 1, 2)
    /\ optimizers["shN"].lr = [base |-> "shN_lr", times_sqrt |-> 2]
    /\ optimizers["means"].betas = <<800, 998>>

\* C17 as stated: every checkpoint written by train has the keys step and
\* splats, and has pose_adjust, app_module, bil_grids and retinex_net exactly
\* when pose_opt, app_opt, use_bilateral_grid and enable_retinex are
\* enabled; and a checkpoint is written at every step s with s+1 in
\* save_steps and at step max_steps-1.
C17_CheckpointKeysAndSchedule ==
    /\ [](\A ck \in ckpts :
            /\ {"step", "splats"} \subseteq ck.keys
            /\ "pose_adjust" \in ck.keys <=> cfg.pose_opt
            /\ "app_module" \in ck.keys <=> cfg.app_opt
            /\ "bil_grids" \in ck.keys <=> cfg.use_bilateral_grid
            /\ "retinex_net" \in ck.keys <=> cfg.enable_retinex)
    /\ [][ (pc = "save" /\ ((step + 1) \in cfg.save_steps \/ step = cfg.max_steps - 1))
              => \E ck \in ckpts' : ck.step = step ]_vars

\* C18 as stated: with enable_retinex, every checkpoint holds the whole
\* state the retinex optimizers update: the decomposition network, the
\* embedding table retinex_embeds and the learnable loss hyperparameters.
C18_CheckpointHoldsRetinexState ==
    \A ck \in ckpts :
        cfg.enable_retinex => RetinexTrained(cfg) \subseteq ck.retinex_state

\* The number of rows in the first k checkpoint files.
RECURSIVE RowsBefore(_, _)
RowsBefore(files, k) ==
    IF k = 0 THEN 0 ELSE RowsBefore(files, k - 1) + files[k].n

\* C19: when main is given more than one checkpoint file and world_size > 1,
\* the loaded SceneState is, for every group, the concatenation of the
\* files' tensors in file order: row r of file i lies at position
\* (rows of the files before i) + r, and every group has N equal to the sum
\* of the files' counts.
C19_ConcatenatedInFileOrder ==
    (loaded # NotLoaded /\ Concatenates(cfg)) =>
        LET files == cfg.ckpt.files
            total == RowsBefore(files, Len(files))
        IN  /\ Len(loaded.rows) = total
            /\ \A i \in 1 .. Len(files) :
                  \A r \in 1 .. files[i].n :
                      loaded.rows[RowsBefore(files, i - 1) + r] = <<i, r>>
            /\ pc \in {"resume_eval", "resume_traj", "resume_compress"} =>
                  \A g \in DOMAIN splats : splats[g].n = total

C19_Witness ==
    /\ pc = "resume_eval"
    /\ cfg.world.size = 2
    /\ Len(cfg.ckpt.files) = 3
    /\ cfg.ckpt.files[1].n # cfg.ckpt.files[2].n
    /\ splats["means"].n = cfg.ckpt.files[1].n + cfg.ckpt.files[2].n + cfg.ckpt.files[3].n
    /\ splats["adjust_k"].n = splats["means"].n
    /\ loaded.rows[2] = <<2, 1>>

\* The batch that the k-th next() of a loop returns, for a loader of n
\* batches per pass: passes follow one another without a gap.
BatchOfFetch(k, n) == ((k - 1) % n) + 1

MainLoopPcs == Range(TrainOrder) \cup {"iter_end"}

\* C20: in the pretraining loop and in the main loop, an exhausted iterator
\* is re-created and the same step goes on with the first batch of the new
\* pass: no StopIteration escapes, every step fetches exactly one batch, the
\* batches follow the loader's order pass after pass, the main loop is left
\* after exactly max_steps iterations and pretraining after exactly
\* pretrain_steps, whatever the number of batches.
ExhaustedIteratorRestarts ==
    /\ err # "StopIteration"
    /\ pc = "pretrain" =>
          /\ fetched = pstep
          /\ pstep < cfg.pretrain_steps
          /\ fetched > 0 => trainloader_iter = BatchOfFetch(fetched, trainset)
    /\ (pc = "main_loader" /\ retinex_calls # {}) =>
          /\ pstep = cfg.pretrain_steps
          /\ fetched = cfg.pretrain_steps
    /\ pc \in MainLoopPcs =>
          /\ step < cfg.max_steps
          /\ fetched = step + (IF pc = "fetch" THEN 0 ELSE 1)
          /\ fetched > 0 => trainloader_iter = BatchOfFetch(fetched, trainset)
    /\ pc = "done" =>
          /\ step = cfg.max_steps
          /\ fetched = cfg.max_steps

\* C20, with termination: the property above holds in every state, and a
\* process that keeps running leaves the pretraining loop and leaves the main
\* loop, by its end or by an error raised elsewhere in the iteration.
C20_ExhaustedIteratorRestarts ==
    /\ []ExhaustedIteratorRestarts
    /\ (pc = "pretrain") ~> (pc \in {"main_loader", "fatal"})
    /\ (pc \in MainLoopPcs) ~> (pc \in {"done", "fatal"})

C20_Witness ==
    /\ pc = "done"
    /\ pstep = cfg.pretrain_steps
    /\ pstep > trainset
    /\ fetched = cfg.max_steps
    /\ fetched > trainset
    /\ trainloader_iter = 1

\* In every state in which the current iteration has gone as far as
\* backward(), the batch carried both depth inputs and the depth term is part
\* of the loss.
DepthTermNeverOmitted ==
    (cfg.depth_loss /\ Range(events) \cap {"backward", "opt_step", "sched_step"} # {}) =>
        /\ data = DepthKeys
        /\ "depthloss" \in loss.extra

\* C21: with depth_loss enabled, a batch that lacks the depth ground truth or
\* the sparse points ends the training step with a fatal error before
\* backward() and before any optimizer or scheduler step of that iteration,
\* nothing runs after the error, and no iteration gets to backward() with the
\* depth term left out.
C21_MissingDepthInputIsFatal ==
    /\ []DepthTermNeverOmitted
    /\ [][(pc = "fetch" /\ cfg.depth_loss /\ data' # DepthKeys) =>
             /\ pc' = "fatal"
             /\ err' # ""
             /\ events' = <<>>
             /\ schedSteps' = schedSteps
             /\ optState' = optState
             /\ splats' = splats]_vars
    /\ [][pc # "fatal"]_vars

C21_Witness ==
    /\ cfg.depth_loss
    /\ pc = "fatal"
    /\ step = 1
    /\ data = {"points"}
    /\ err = "KeyError: depths"
    /\ events = <<>>
    /\ \A i \in DOMAIN schedSteps : schedSteps[i] = step

\* create_splats_with_optimizers' slicing on its own: every point set and
\* world size, the ranks in any order.
ShardInit ==
    /\ cfg = BaseCfg
    /\ trainset = 1
    /\ call = NoCall
    /\ NotStarted
    /\ shards \in ShardInputs
    /\ err = ""
    /\ step = 0
    /\ pstep = 0
    /\ splats = <<>>
    /\ optState = <<>>
    /\ running_stats = 0
    /\ strategy_state = "none"
    /\ schedulers = <<>>
    /\ schedSteps = <<>>
    /\ steppedOpts = {}
    /\ events = <<>>
    /\ fsWrites = {}
    /\ render = NoRender
    /\ dispatched = {}

ShardNext == CreateShard

ShardSpec == ShardInit /\ [][ShardNext]_vars

\* C22: the index sets the ranks take are pairwise disjoint, their sizes
\* differ by at most one, within a rank means, colours and scales refer to
\* the same indices, and once every rank has taken its shard the union is
\* the whole point set.
C22_ShardsPartitionThePoints ==
    LET taken == shards.taken
        all   == 0 .. shards.P - 1
    IN  /\ \A r \in DOMAIN taken :
              /\ taken[r].points \subseteq all
              /\ taken[r].rgbs = taken[r].points
              /\ taken[r].scales = taken[r].points
        /\ \A r, q \in DOMAIN taken :
              /\ r # q => taken[r].points \cap taken[q].points = {}
              /\ Cardinality(taken[r].points) - Cardinality(taken[q].points) <= 1
        /\ DOMAIN taken = 0 .. shards.world_size - 1 =>
              UNION { taken[r].points : r \in DOMAIN taken } = all

C22_Witness ==
    /\ shards.world_size = MaxWorld
    /\ shards.P > MaxWorld
    /\ shards.P % MaxWorld # 0
    /\ DOMAIN shards.taken = 0 .. MaxWorld - 1
    /\ \A r \in DOMAIN shards.taken : shards.taken[r].points # {}

\* C23: evaluation and trajectory rendering run only on the rank-zero
\* worker: a worker with world_rank # 0 never renders in Runner.eval and
\* never renders in Runner.render_traj.
C23_OnlyRankZeroRendersEvalAndTraj ==
    cfg.world.rank # 0 => rendered \cap {"eval", "traj"} = {}

\* In a process whose BRISQUE construction raised: the metric is None,
\* eval_niqe is off, nobody has called the metric, and an evaluation on rank
\* zero has filled the other metrics.
NiqeFailureDisablesOnlyNiqe ==
    /\ err # "Exception: BRISQUELoss"
    /\ niqe.raised =>
          /\ ~niqe.metric
          /\ ~niqe.eval_niqe
          /\ niqe.calls = {}
          /\ metrics \cap {"niqe", "niqe_enh"} = {}
          /\ metrics # {} => {"psnr", "ssim", "lpips"} \subseteq metrics

\* C24: if constructing the BRISQUE metric raises, Runner construction still
\* completes, niqe_metric stays None and eval_niqe false for the rest of the
\* run, no later eval or render_traj calls the metric or fails for its
\* absence, and the other metrics are still computed.
C24_NiqeInitFailureIsNotFatal ==
    /\ []NiqeFailureDisablesOnlyNiqe
    /\ [][(pc = "start" /\ cfg.eval_niqe /\ InitError(cfg) = "") =>
             pc' = "constructed"]_vars

C24_Witness ==
    /\ niqe.raised
    /\ pc = "done"
    /\ cfg.world.rank = 0
    /\ {"eval", "traj"} \subseteq rendered
    /\ {"psnr", "ssim", "lpips"} \subseteq metrics
    /\ niqe.calls = {}

\* C25: create_splats_with_optimizers succeeds in both appearance modes
\* (feature_dim None: sh0 and shN; feature_dim set, with app_opt: features
\* and colors) and returns adjust_k and adjust_b with the N of every other
\* group, and one optimizer per group.
C25_SplatsCreatedInBothModes ==
    /\ err # "IndexError: adjust_k"
    /\ pc = "constructed" =>
          /\ DOMAIN splats = SceneGroups(cfg.app_opt)
          /\ DOMAIN optimizers = DOMAIN splats
          /\ \A g \in DOMAIN splats :
                /\ splats["adjust_k"].n = splats[g].n
                /\ splats["adjust_b"].n = splats[g].n

\* C26: for every effective batch size BS = batch_size * world_size >= 1 the
\* scene optimizers get Adam betas that both lie in [0, 1) and an eps > 0,
\* and their construction never fails because of the rescaling. Betas are in
\* thousandths.
C26_RescaledBetasValid ==
    LET h == OptimizerHyper("means", cfg.batch_size, cfg.world.size)
    IN  cfg.batch_size * cfg.world.size >= 1 =>
            /\ 0 <= h.betas[1] /\ h.betas[1] < 1000
            /\ 0 <= h.betas[2] /\ h.betas[2] < 1000
            /\ h.eps.over_sqrt > 0
            /\ err # "ValueError: Invalid beta parameter at index 0"

\* C27: a checkpoint written by train can be loaded by main as a single
\* file: loading never fails, afterwards every SceneState group is the saved
\* snapshot, also when the saved N differs from the N of the freshly
\* constructed Runner, and every optional sub-state the checkpoint holds for
\* an enabled feature has been restored before evaluation.
C27_SingleFileRoundTrip ==
    /\ err # "RuntimeError: load_state_dict size mismatch"
    /\ (loaded # NotLoaded /\ ~Concatenates(cfg)) =>
          /\ loaded.rows = CkptRows(cfg.ckpt.files, 1)
          /\ pc = "resume_eval" =>
                \A g \in DOMAIN splats : splats[g].n = cfg.ckpt.files[1].n
          /\ loaded.restored = CheckpointKeys(cfg) \ {"step", "splats"}

\* C28: pretraining runs iff pretrain_retinex and enable_retinex are both
\* set, completes all pretrain_steps iterations before the first main-loop
\* iteration, and leaves unchanged SceneState, StrategyState, the scene
\* optimizers and the learning rate of every optimizer it does not step:
\* only the retinex network, retinex embedding and refinement optimizers
\* step, and only their schedulers advance.
C28_PretrainingFrame ==
    /\ [](/\ pstep > 0 => cfg.pretrain_retinex /\ cfg.enable_retinex
          /\ (pc \in MainLoopPcs /\ cfg.pretrain_retinex /\ cfg.enable_retinex) =>
                pstep = cfg.pretrain_steps
          /\ pretrain.stepped \subseteq {"retinex", "retinex_embed", "refinement"}
          /\ pretrain.scheduled \subseteq pretrain.stepped)
    /\ [][pc = "pretrain" =>
             /\ splats' = splats
             /\ strategy_state' = strategy_state
             /\ optState' = optState
             /\ optimizers' = optimizers
             /\ step' = step]_vars

\* C29: at every save step, building and writing the checkpoint succeeds for
\* every combination of pose_opt, app_opt, use_bilateral_grid and
\* enable_retinex and every world_size: .module is read only from modules
\* that were wrapped at construction, so no save step ends in an attribute
\* error and every save step that is reached leaves its checkpoint.
C29_SaveStepNeverFails ==
    /\ [](err # "AttributeError: bil_grids.module")
    /\ [][(pc = "save" /\ IsSaveStep(cfg, step)) =>
             /\ pc' = Succ("save")
             /\ "ckpt" \in fsWrites'
             /\ \E ck \in ckpts' : ck.step = step /\ ck.keys = CheckpointKeys(cfg)]_vars

\* C30: for every combination of sparse_grad and visible_adam, the step call
\* of the main loop matches the class chosen at construction:
\* step(visibility_mask) is called only on SelectiveAdam optimizers and
\* plain step() on all others, so no combination makes a scene optimizer
\* step fail.
C30_StepCallMatchesOptimizerClass ==
    /\ err # "TypeError: 'Tensor' object is not callable"
    /\ pc = "opt_step" =>
          (StepCall(cfg) = "step(visibility_mask)" <=>
              OptimizerClass(cfg) = "SelectiveAdam")

====
